---- MODULE Spec2Model ----
\* The forward/backward bridge of xformers.ops.fmha (_fMHA), its four public
\* entry points and the flash backend, as a state machine over attention calls
\* that share one ambient CUDA random-number generator.
EXTENDS Integers, Sequences, FiniteSets, TLC

\* ---------------------------------------------------------------- bounds
BatchSize == 2
SeqLen == 3
NumHeads == 2
MaxOtherWork == 2

\* ---------------------------------------------------------------- values
None == "None"
NoRng == -1
Calls == {1, 2}

FlashFw == "flshattF"
FlashBw == "flshattB"
CutlassFw == "cutlassF"
CutlassBw == "cutlassB"

BiasTensor == "torch.Tensor"
LowerTriangularMask == "LowerTriangularMask"
AttnBiasVariants == {None, BiasTensor, LowerTriangularMask}

\* p in tenths (0 is p = 0.0, 3 is p = 0.3); scale None or a custom float
DropoutValues == {0, 3}
ScaleValues == {None, "custom"}
EmbedDims == {60, 64, 128}
Devices == {"cuda", "cpu"}
Capabilities == {<<7, 0>>, <<7, 5>>, <<8, 0>>}

Last(s) == s[Len(s)]

\* ---------------------------------------------------------------- tensors
Tensor(data, shape, rg) == [data |-> data, shape |-> shape, requires_grad |-> rg]
NullTensor == Tensor(None, <<>>, FALSE)
detach(t) == [t EXCEPT !.requires_grad = FALSE]
reshape(t, shape) == [t EXCEPT !.shape = shape]

Shape3(k) == <<BatchSize, SeqLen, k>>
Shape4(k) == <<BatchSize, SeqLen, NumHeads, k>>

Inputs(query, key, value, attn_bias, p, scale, device) ==
    [query |-> query, key |-> key, value |-> value, attn_bias |-> attn_bias,
     p |-> p, scale |-> scale, device |-> device]
NullInputs == Inputs(NullTensor, NullTensor, NullTensor, None, 0, None, None)

Context(out, lse, rng_state, op_bw) ==
    [out |-> out, lse |-> lse, rng_state |-> rng_state, op_bw |-> op_bw]
NullContext == Context(NullTensor, NullTensor, NoRng, None)

\* [B, M, K] -> [B, M, 1, K]
unsqueeze2(t) ==
    reshape(t, <<t.shape[1], t.shape[2], 1, t.shape[3]>>)

\* Inputs.normalize_bmhk: promotes rank-3 query/key/value in place
normalize_bmhk(inp) ==
    IF Len(inp.query.shape) = 3
    THEN [inp EXCEPT !.query = unsqueeze2(inp.query),
                     !.key = unsqueeze2(inp.key),
                     !.value = unsqueeze2(inp.value)]
    ELSE inp

\* the shape normalize_bmhk returns: query.shape[:-1] + (value.shape[-1],)
normalize_output_shape(inp) ==
    SubSeq(inp.query.shape, 1, Len(inp.query.shape) - 1) \o <<Last(inp.value.shape)>>

normalize_fails(inp) ==
    \/ Len(inp.query.shape) \notin {3, 4}
    \/ Len(inp.key.shape) # Len(inp.query.shape)
    \/ Len(inp.value.shape) # Len(inp.query.shape)

bmk2bmhk(t) ==
    IF Len(t.shape) = 4 THEN t
    ELSE IF Len(t.shape) = 3 THEN unsqueeze2(t)
    ELSE t

\* ---------------------------------------------------------------- state
VARIABLES
    flashLoaded,        \* flash.py: _C_flashattention imported
    deviceCapability,   \* torch.cuda.get_device_capability
    rng,                \* ambient CUDA RNG state
    args,               \* the arguments of each call
    pc,                 \* where each call stands
    inp,                \* the Inputs object of the running handler
    op_ctx,             \* the Context object of the running handler
    saved_tensors,      \* ctx.save_for_backward(...)
    ctx,                \* attributes set on the autograd ctx
    bw_op,              \* operator chosen for the backward
    grad,               \* incoming gradient, as the backward operator gets it
    cur_rng_state,      \* BwOp.apply's local
    ret,                \* what the entry point returned
    err,                \* the error the entry point raised
    trace               \* history of the call

vars == <<flashLoaded, deviceCapability, rng, args, pc, inp, op_ctx,
          saved_tensors, ctx, bw_op, grad, cur_rng_state, ret, err, trace>>


\* ---------------------------------------------------------------- capability
SUPPORTED_MAX_K == 128
MIN_ALIGN_K == 8
SM80 == <<8, 0>>
MIN_CAPABILITY == <<7, 5>>
BW_SMALL_K == 64
N_ARGS == 6

FlashOps == {FlashFw, FlashBw}
SUPPORTED_DEVICES(op) == {"cuda"}
SUPPORTED_ATTN_BIAS_TYPES(op) ==
    IF op \in FlashOps THEN {None, LowerTriangularMask} ELSE AttnBiasVariants
SUPPORTS_DROPOUT(op) == TRUE
SUPPORTS_CUSTOM_SCALE(op) == TRUE
SUPPORTS_DIFFERENT_VALUE_EMBED(op) == op \notin FlashOps

\* the static check every backend inherits (AttentionOpBase.supports)
AttentionOpBase_supports(op, d) ==
    /\ d.device \in SUPPORTED_DEVICES(op)
    /\ (op \in FlashOps => Last(d.query.shape) <= SUPPORTED_MAX_K)
    /\ d.attn_bias \in SUPPORTED_ATTN_BIAS_TYPES(op)
    /\ (d.p # 0 => SUPPORTS_DROPOUT(op))
    /\ (d.scale # None => SUPPORTS_CUSTOM_SCALE(op))
    /\ (Last(d.value.shape) # Last(d.query.shape)
            => SUPPORTS_DIFFERENT_VALUE_EMBED(op))

\* tuple comparison a >= b
CapGE(a, b) == a[1] > b[1] \/ (a[1] = b[1] /\ a[2] >= b[2])
Max2(a, b) == IF a >= b THEN a ELSE b

\* one evaluation of supports: what it returned, the checks it went through,
\* whether it raised, and the Inputs as it left them
SupportsRun(result, steps, raised, d) ==
    [result |-> result, steps |-> steps, raised |-> raised, inp |-> d]

S_operator == "OPERATOR is None"
S_static == "super().supports"
S_device == "get_device_capability"
S_align == "K % 8"
S_capability == "capability >= (7, 5)"
S_small_k == "max(K) > 64 and not sm80"

\* torch.cuda.get_device_capability raises for a device that is not cuda
get_device_capability_raises(device) == device # "cuda"

\* mutation: the guard on the missing kernel is gone
FwOp_supports_run_unguarded(d) ==
    IF ~AttentionOpBase_supports(FlashFw, d)
    THEN SupportsRun(FALSE, <<S_static>>, FALSE, d)
    ELSE IF get_device_capability_raises(d.device)
    THEN SupportsRun(FALSE, <<S_static, S_device>>, TRUE, d)
    ELSE IF (Last(d.query.shape) % MIN_ALIGN_K) > 0
    THEN SupportsRun(FALSE, <<S_static, S_device, S_align>>, FALSE, d)
    ELSE SupportsRun(CapGE(deviceCapability, MIN_CAPABILITY),
                     <<S_static, S_device, S_align, S_capability>>, FALSE, d)

\* flash.py lines 95-107, statement by statement
FwOp_supports_run(d) ==
    IF ~flashLoaded
    THEN SupportsRun(FALSE, <<S_operator>>, FALSE, d)
    ELSE IF ~AttentionOpBase_supports(FlashFw, d)
    THEN SupportsRun(FALSE, <<S_operator, S_static>>, FALSE, d)
    ELSE IF get_device_capability_raises(d.device)
    THEN SupportsRun(FALSE, <<S_operator, S_static, S_device>>, TRUE, d)
    ELSE IF (Last(d.query.shape) % MIN_ALIGN_K) > 0
    THEN SupportsRun(FALSE, <<S_operator, S_static, S_device, S_align>>, FALSE, d)
    ELSE SupportsRun(CapGE(deviceCapability, MIN_CAPABILITY),
                     <<S_operator, S_static, S_device, S_align, S_capability>>,
                     FALSE, d)

FwOp_supports(d) == FwOp_supports_run(d).result

\* mutation: the backward predicate no longer asks the forward one
BwOp_supports_run_alone(d) ==
    SupportsRun(~(Max2(Last(d.key.shape), Last(d.query.shape)) > BW_SMALL_K
                  /\ deviceCapability # SM80),
                <<S_device, S_small_k>>, FALSE, d)

\* flash.py lines 176-184, statement by statement
BwOp_supports_run(d) ==
    LET f == FwOp_supports_run(d)
    IN  IF ~f.result
        THEN SupportsRun(FALSE, f.steps, f.raised, f.inp)
        ELSE SupportsRun(~(Max2(Last(d.key.shape), Last(d.query.shape)) > BW_SMALL_K
                           /\ deviceCapability # SM80),
                         f.steps \o <<S_device, S_small_k>>, FALSE, f.inp)

BwOp_supports(d) == BwOp_supports_run(d).result

supports(op, d) ==
    CASE op = FlashFw -> FwOp_supports(d)
      [] op = FlashBw -> BwOp_supports(d)
      [] OTHER -> AttentionOpBase_supports(op, d)

\* ---------------------------------------------------------------- dispatch
FwPriority == <<FlashFw, CutlassFw>>
BwPriority == <<FlashBw, CutlassBw>>

RECURSIVE first_supporting(_, _, _)
first_supporting(list, d, i) ==
    IF i > Len(list) THEN None
    ELSE IF supports(list[i], d) THEN list[i]
    ELSE first_supporting(list, d, i + 1)

\* None stands for the NotImplementedError of an empty selection
_dispatch_fw(d) == first_supporting(FwPriority, d, 1)
_dispatch_bw(d) == first_supporting(BwPriority, d, 1)

\* mutation: without an explicit operator the head of the list is taken unasked
select_fw_head(op, d) == IF op = None THEN FwPriority[1] ELSE op

\* __init__.py lines 299-300 and 309-310: if op is None: op = _dispatch_fw(inp)
select_fw(op, d) == IF op = None THEN _dispatch_fw(d) ELSE op

\* __init__.py lines 343-344: if op is None: op = _dispatch_bw(inp)
select_bw(op, d) == IF op = None THEN _dispatch_bw(d) ELSE op

\* ---------------------------------------------------------------- forward operators
KernelOutcomes == {"ok", "fail_before_rng", "fail_after_rng"}

E_dispatch == "NotImplementedError: no operator found"
E_bias == "NotImplementedError: Unsupported attn_bias type"
E_kernel == "RuntimeError: kernel failed"
E_notloaded == "TypeError: OPERATOR is None"
E_shape == "ValueError: shapes"
E_dropout == "NotImplementedError: dropout is not supported on the non-autograd API"
E_op_bw == "ValueError: Specified op_bw conflicts with the forward op"
E_grad == "AssertionError: Only gradients to Q/K/V is implemented"
E_rng == "AssertionError: ctx.rng_state is None"

ApplyResult(e, out, c, r, krng) ==
    [err |-> e, out |-> out, ctx |-> c, rng |-> r, kernel_rng |-> krng]

\* the kernel draws its dropout mask from the ambient generator iff p != 0
kernel_rng_after(p, r) == IF p # 0 THEN r + 1 ELSE r

\* mutation: the snapshot is taken once the kernel has drawn its mask
get_rng_snapshot_after_kernel(p, r) == IF p # 0 THEN r + 1 ELSE NoRng

\* flash.py line 138
get_rng_snapshot(p, r) == IF p # 0 THEN r ELSE NoRng

\* mutation: the forward operator pins no backward operator
pinned_op_bw_unpinned(op, p) == None

\* flash.py lines 157-160
pinned_op_bw(op, p) ==
    IF p # 0 THEN (IF op = FlashFw THEN FlashBw ELSE CutlassBw) ELSE None

kernel_out(d) ==
    Tensor("out", <<d.query.shape[1], d.query.shape[2], d.query.shape[3],
                    d.value.shape[4]>>, FALSE)
kernel_lse(d) ==
    Tensor("lse", <<d.query.shape[1], d.query.shape[3], d.query.shape[2]>>, FALSE)

FwOp_apply(d, needs_gradient, r, ko) ==
    LET rng_state == get_rng_snapshot(d.p, r)
        out == kernel_out(d)
    IN  IF d.attn_bias # None /\ d.attn_bias # LowerTriangularMask
        THEN ApplyResult(E_bias, NullTensor, NullContext, r, NoRng)
        ELSE IF ~flashLoaded
        THEN ApplyResult(E_notloaded, NullTensor, NullContext, r, NoRng)
        ELSE IF ko # "ok"
        THEN ApplyResult(E_kernel, NullTensor, NullContext,
                         IF ko = "fail_after_rng" THEN kernel_rng_after(d.p, r) ELSE r, r)
        ELSE ApplyResult(None, out,
                         Context(out, kernel_lse(d),
                                 IF d.p # 0 THEN rng_state ELSE NoRng,
                                 pinned_op_bw(FlashFw, d.p)),
                         kernel_rng_after(d.p, r), r)

\* the other registered backend, by the operator contract
CutlassFwOp_apply(d, needs_gradient, r, ko) ==
    LET out == kernel_out(d)
    IN  IF ko # "ok"
        THEN ApplyResult(E_kernel, NullTensor, NullContext,
                         IF ko = "fail_after_rng" THEN kernel_rng_after(d.p, r) ELSE r, r)
        ELSE ApplyResult(None, out,
                         IF needs_gradient
                         THEN Context(out, kernel_lse(d), get_rng_snapshot(d.p, r),
                                      pinned_op_bw(CutlassFw, d.p))
                         ELSE NullContext,
                         kernel_rng_after(d.p, r), r)

apply_fw(op, d, needs_gradient, r, ko) ==
    IF op = FlashFw THEN FwOp_apply(d, needs_gradient, r, ko)
    ELSE CutlassFwOp_apply(d, needs_gradient, r, ko)

\* mutation: the operator's rank-4 output is handed back as it is
restore_output_shape_skipped(out, output_shape) == out

\* __init__.py lines 302, 313, 291-293: .reshape(output_shape)
restore_output_shape(out, output_shape) == reshape(out, output_shape)

FwdResult(e, d, op, dispatched, normalized, out, c, r, krng, needs_gradient) ==
    [err |-> e, inp |-> d, op |-> op, dispatched |-> dispatched,
     normalized |-> normalized, out |-> out, ctx |-> c, rng |-> r,
     kernel_rng |-> krng, needs_gradient |-> needs_gradient]

\* the body shared by _memory_efficient_attention_forward and
\* _memory_efficient_attention_forward_requires_grad
forward_run(d, op, needs_gradient, r, ko) ==
    IF normalize_fails(d)
    THEN FwdResult(E_shape, d, None, FALSE, FALSE, NullTensor, NullContext, r, NoRng,
                   needs_gradient)
    ELSE LET n == normalize_bmhk(d)
             output_shape == normalize_output_shape(d)
             chosen == select_fw(op, n)
         IN  IF chosen = None
             THEN FwdResult(E_dispatch, n, None, TRUE, TRUE, NullTensor, NullContext,
                            r, NoRng, needs_gradient)
             ELSE LET a == apply_fw(chosen, n, needs_gradient, r, ko)
                  IN  FwdResult(a.err, n, chosen, op = None, TRUE,
                                IF a.err = None
                                THEN restore_output_shape(a.out, output_shape)
                                ELSE NullTensor,
                                a.ctx, a.rng, a.kernel_rng, needs_gradient)

_memory_efficient_attention_forward(d, op, r, ko) ==
    forward_run(d, op, FALSE, r, ko)

_memory_efficient_attention_forward_requires_grad(d, op, r, ko) ==
    forward_run(d, op, TRUE, r, ko)

\* ---------------------------------------------------------------- bridge, forward phase
attn_bias_tensor_of(attn_bias) == IF attn_bias = BiasTensor THEN attn_bias ELSE None
\* mutation: the non-tensor bias is not kept
attn_bias_ctx_dropped(attn_bias) == None

attn_bias_ctx_of(attn_bias) == IF attn_bias = BiasTensor THEN None ELSE attn_bias

SavedTensors(q, k, v, out, lse, rng_state, abt) ==
    [set |-> TRUE, query |-> q, key |-> k, value |-> v, out |-> out, lse |-> lse,
     rng_state |-> rng_state, attn_bias_tensor |-> abt]
NullSaved ==
    [set |-> FALSE, query |-> NullTensor, key |-> NullTensor, value |-> NullTensor,
     out |-> NullTensor, lse |-> NullTensor, rng_state |-> NoRng,
     attn_bias_tensor |-> None]

CtxAttrs(op_fw, op_bw, p, scale, abc, n_args) ==
    [set |-> TRUE, op_fw |-> op_fw, op_bw |-> op_bw, p |-> p, scale |-> scale,
     attn_bias_ctx |-> abc, n_args |-> n_args]
NullAttrs ==
    [set |-> FALSE, op_fw |-> None, op_bw |-> None, p |-> 0, scale |-> None,
     attn_bias_ctx |-> None, n_args |-> 0]

\* mutation: the caller's operator silently gives way to the pinned one
op_bw_conflict_ignored(op_bw, pinned) == FALSE

op_bw_conflict(op_bw, pinned) == pinned # None /\ op_bw # None /\ op_bw # pinned
persisted_op_bw(op_bw, pinned) == IF pinned # None THEN pinned ELSE op_bw

BridgeResult(e, out, saved, attrs, f) ==
    [err |-> e, out |-> out, saved |-> saved, attrs |-> attrs, fwd |-> f]

\* _fMHA.forward(ctx, op, *args), a = Inputs(*args)
fMHA_forward(op, a, r, ko) ==
    LET op_fw == op[1]
        op_bw == op[2]
        f == _memory_efficient_attention_forward_requires_grad(a, op_fw, r, ko)
        d == f.inp
        saved == SavedTensors(detach(d.query), detach(d.key), detach(d.value),
                              f.ctx.out, f.ctx.lse, f.ctx.rng_state,
                              attn_bias_tensor_of(d.attn_bias))
    IN  IF f.err # None
        THEN BridgeResult(f.err, NullTensor, NullSaved, NullAttrs, f)
        ELSE IF op_bw_conflict(op_bw, f.ctx.op_bw)
        THEN BridgeResult(E_op_bw, NullTensor, saved, NullAttrs, f)
        ELSE BridgeResult(None, f.out, saved,
                          CtxAttrs(op_fw, persisted_op_bw(op_bw, f.ctx.op_bw), d.p,
                                   d.scale, attn_bias_ctx_of(d.attn_bias), N_ARGS),
                          f)

\* ---------------------------------------------------------------- calls
E_compute == "memory_efficient_attention"
E_forward == "memory_efficient_attention_forward"
E_forward_rg == "memory_efficient_attention_forward_requires_grad"
E_backward == "memory_efficient_attention_backward"

MkArgs(entry, op, shape, attn_bias, p, scale, device, rg, g, output, lse) ==
    [entry |-> entry, op |-> op,
     query |-> Tensor("query", shape, 1 \in rg),
     key |-> Tensor("key", shape, 2 \in rg),
     value |-> Tensor("value", shape, 3 \in rg),
     attn_bias |-> attn_bias, p |-> p, scale |-> scale, device |-> device,
     req_grad |-> rg, grad |-> g, output |-> output, lse |-> lse]
NullArgs ==
    MkArgs(None, <<None, None>>, <<>>, None, 0, None, None, {}, NullTensor,
           NullTensor, NullTensor)

Shapes == {Shape3(k) : k \in EmbedDims} \cup {Shape4(k) : k \in EmbedDims}
OtherRank(shape) ==
    IF Len(shape) = 3 THEN <<shape[1], shape[2], 1, shape[3]>>
    ELSE <<shape[1], shape[2], shape[4]>>
HeadsOf(shape) == IF Len(shape) = 3 THEN 1 ELSE shape[3]

OpPairs == {<<None, None>>, <<FlashFw, FlashBw>>, <<FlashFw, CutlassBw>>,
            <<CutlassFw, FlashBw>>, <<CutlassFw, CutlassBw>>}
FwOpChoices == {<<None, None>>, <<FlashFw, None>>, <<CutlassFw, None>>}
BwOpChoices == {<<None, None>>, <<None, FlashBw>>, <<None, CutlassBw>>}

\* positions, among the forward's arguments, of the tensors requiring a gradient
ReqGradChoices == {{}, {1}, {1, 2, 3}, {1, 4}, {2, 5}, {3, 6}, {4}}
ReqGradOk(rg, attn_bias, scale) ==
    /\ (4 \in rg => attn_bias = BiasTensor)
    /\ (6 \in rg => scale # None)

ComputeArgs ==
    {MkArgs(E_compute, op, s, b, p, sc, dev, rg, NullTensor, NullTensor, NullTensor) :
        op \in OpPairs, s \in Shapes, b \in AttnBiasVariants, p \in DropoutValues,
        sc \in ScaleValues, dev \in Devices,
        rg \in {x \in ReqGradChoices : TRUE}}
ForwardArgs ==
    {MkArgs(e, op, s, b, p, sc, dev, {}, NullTensor, NullTensor, NullTensor) :
        e \in {E_forward, E_forward_rg}, op \in FwOpChoices, s \in Shapes,
        b \in AttnBiasVariants, p \in DropoutValues, sc \in ScaleValues,
        dev \in Devices}
\* [B, H, M]; then a padded M, a short M, a wrong H, a wrong B, a wrong rank
LseShapes(s) ==
    {<<s[1], HeadsOf(s), s[2]>>, <<s[1], HeadsOf(s), s[2] + 1>>,
     <<s[1], HeadsOf(s), s[2] - 1>>, <<s[1], HeadsOf(s) + 1, s[2]>>,
     <<s[1] + 1, HeadsOf(s), s[2]>>, <<s[1], s[2]>>}
BackwardArgs ==
    UNION {{MkArgs(E_backward, op, s, b, p, sc, dev, {},
                   Tensor("grad", gs, FALSE), Tensor("out", os, FALSE),
                   Tensor("lse", ls, FALSE)) :
                op \in BwOpChoices, b \in AttnBiasVariants, p \in DropoutValues,
                sc \in ScaleValues, dev \in Devices, gs \in {s, OtherRank(s)},
                os \in {s, OtherRank(s)}, ls \in LseShapes(s)} : s \in Shapes}
ArgChoices ==
    {a \in ComputeArgs : ReqGradOk(a.req_grad, a.attn_bias, a.scale)}
        \cup ForwardArgs \cup BackwardArgs

NoRet == [out |-> NullTensor, lse |-> NullTensor, grads |-> <<>>]

\* what a first backward invocation read and returned
BackwardRecord(d, oc, g, op, r, grads) ==
    [rebuilt_inp |-> d, rebuilt_ctx |-> oc, grad |-> g, bw_op |-> op,
     rng_at_bw |-> r, grads |-> grads]
NullRecord == BackwardRecord(NullInputs, NullContext, NullTensor, None, NoRng, <<>>)

NullTrace ==
    [fw_op |-> None, fw_dispatched |-> FALSE, fw_normalized |-> FALSE,
     fw_inp |-> NullInputs, fw_ctx |-> NullContext, fw_kernel_rng |-> NoRng,
     rng_at_fw |-> NoRng, rng_after_fw |-> NoRng, bridged |-> FALSE,
     other_work |-> 0, rng_at_bw |-> NoRng, bw_dispatched |-> FALSE,
     bw_normalized |-> FALSE, bw_executed |-> None, bw_kernel_rng |-> NoRng,
     bw_rng_access |-> FALSE, rebuilt |-> FALSE, rebuilt_inp |-> NullInputs,
     rebuilt_ctx |-> NullContext, again |-> FALSE, first |-> NullRecord,
     fw_needs_gradient |-> FALSE]

InitCalls(first, second) ==
    /\ rng = 0
    /\ args = [c \in Calls |-> IF c = 1 THEN first ELSE second]
    /\ pc = [c \in Calls |-> IF args[c].entry = None THEN "absent" ELSE "idle"]
    /\ inp = [c \in Calls |-> NullInputs]
    /\ op_ctx = [c \in Calls |-> NullContext]
    /\ saved_tensors = [c \in Calls |-> NullSaved]
    /\ ctx = [c \in Calls |-> NullAttrs]
    /\ bw_op = [c \in Calls |-> None]
    /\ grad = [c \in Calls |-> NullTensor]
    /\ cur_rng_state = [c \in Calls |-> NoRng]
    /\ ret = [c \in Calls |-> NoRet]
    /\ err = [c \in Calls |-> None]
    /\ trace = [c \in Calls |-> NullTrace]

\* one call at a time
Init ==
    /\ flashLoaded \in BOOLEAN
    /\ deviceCapability \in Capabilities
    /\ \E a \in ArgChoices : InitCalls(a, NullArgs)

ArgsInputs(a) ==
    Inputs(a.query, a.key, a.value, a.attn_bias, a.p, a.scale, a.device)

FwTrace(t, f, r) ==
    [t EXCEPT !.fw_op = f.op, !.fw_dispatched = f.dispatched,
              !.fw_normalized = f.normalized,
              !.fw_inp = IF f.op # None THEN f.inp ELSE NullInputs,
              !.fw_ctx = f.ctx, !.fw_kernel_rng = f.kernel_rng,
              !.rng_at_fw = r, !.rng_after_fw = f.rng,
              !.fw_needs_gradient = (f.op # None /\ f.needs_gradient)]

\* the end of a call that ran a forward outside the bridge
ForwardReturns(c, f, lse) ==
    /\ rng' = f.rng
    /\ inp' = [inp EXCEPT ![c] = f.inp]
    /\ pc' = [pc EXCEPT ![c] = IF f.err = None THEN "returned" ELSE "fw_failed"]
    /\ err' = [err EXCEPT ![c] = f.err]
    /\ ret' = [ret EXCEPT ![c] = IF f.err = None
                                 THEN [out |-> f.out, lse |-> lse, grads |-> <<>>]
                                 ELSE NoRet]
    /\ trace' = [trace EXCEPT ![c] = FwTrace(@, f, rng)]
    /\ UNCHANGED <<flashLoaded, deviceCapability, args, op_ctx, saved_tensors, ctx,
                   bw_op, grad, cur_rng_state>>

\* the end of a call that went through _fMHA.apply
BridgeReturns(c, b, output_shape) ==
    /\ rng' = b.fwd.rng
    /\ inp' = [inp EXCEPT ![c] = b.fwd.inp]
    /\ pc' = [pc EXCEPT ![c] = IF b.err = None THEN "fw_done" ELSE "fw_failed"]
    /\ err' = [err EXCEPT ![c] = b.err]
    /\ ret' = [ret EXCEPT ![c] = IF b.err = None
                                 THEN [out |-> restore_output_shape(b.out, output_shape),
                                       lse |-> NullTensor, grads |-> <<>>]
                                 ELSE NoRet]
    /\ op_ctx' = [op_ctx EXCEPT ![c] = b.fwd.ctx]
    /\ saved_tensors' = [saved_tensors EXCEPT ![c] = b.saved]
    /\ ctx' = [ctx EXCEPT ![c] = b.attrs]
    /\ grad' = [grad EXCEPT ![c] = IF b.err = None
                                   THEN Tensor("grad", b.out.shape, FALSE)
                                   ELSE NullTensor]
    /\ trace' = [trace EXCEPT ![c] = [FwTrace(@, b.fwd, rng) EXCEPT !.bridged = TRUE]]
    /\ UNCHANGED <<flashLoaded, deviceCapability, args, bw_op, cur_rng_state>>

\* mutation: only the query is looked at
takes_fast_path_query_only(query, key, value) == ~query.requires_grad

\* __init__.py line 284: all(x.requires_grad is False for x in [q, k, v])
takes_fast_path(query, key, value) ==
    ~query.requires_grad /\ ~key.requires_grad /\ ~value.requires_grad

\* memory_efficient_attention -> _memory_efficient_attention
memory_efficient_attention(c) ==
    /\ pc[c] = "idle"
    /\ args[c].entry = E_compute
    /\ \E ko \in KernelOutcomes :
        LET a == args[c]
            d == ArgsInputs(a)
        IN  IF takes_fast_path(a.query, a.key, a.value)
            THEN ForwardReturns(c, _memory_efficient_attention_forward(
                                       d, a.op[1], rng, ko), NullTensor)
            ELSE BridgeReturns(c, fMHA_forward(a.op, normalize_bmhk(d), rng, ko),
                               normalize_output_shape(d))

memory_efficient_attention_forward(c) ==
    /\ pc[c] = "idle"
    /\ args[c].entry = E_forward
    /\ \E ko \in KernelOutcomes :
        ForwardReturns(c, _memory_efficient_attention_forward(
                              ArgsInputs(args[c]), args[c].op[1], rng, ko), NullTensor)

\* mutation: the dropout guard is missing
forward_requires_grad_accepts(p) == FALSE

\* lines 232-236
forward_requires_grad_rejects(p) == p # 0

RaisesAtEntry(c, e) ==
    /\ pc' = [pc EXCEPT ![c] = IF args[c].entry = E_backward THEN "bw_failed"
                               ELSE "fw_failed"]
    /\ err' = [err EXCEPT ![c] = e]
    /\ UNCHANGED <<flashLoaded, deviceCapability, rng, args, inp, op_ctx,
                   saved_tensors, ctx, bw_op, grad, cur_rng_state, ret, trace>>

memory_efficient_attention_forward_requires_grad(c) ==
    /\ pc[c] = "idle"
    /\ args[c].entry = E_forward_rg
    /\ IF forward_requires_grad_rejects(args[c].p)
       THEN RaisesAtEntry(c, E_dropout)
       ELSE \E ko \in KernelOutcomes :
            LET f == _memory_efficient_attention_forward_requires_grad(
                         ArgsInputs(args[c]), args[c].op[1], rng, ko)
            IN  ForwardReturns(c, f, f.ctx.lse)

\* ---------------------------------------------------------------- backward
BwdResult(e, d, c, g, op, dispatched, normalized) ==
    [err |-> e, inp |-> d, ctx |-> c, grad |-> g, op |-> op,
     dispatched |-> dispatched, normalized |-> normalized]

\* lines 320: the ranks of grad, query and out differ
ndim_mismatch(g, query, out) ==
    Len(g.shape) # Len(query.shape) \/ Len(g.shape) # Len(out.shape)

\* mutation: a padded lse is turned down as well
lse_incompatible_exact(lse, query) ==
    \/ Len(lse.shape) # 3
    \/ lse.shape[1] # query.shape[1]
    \/ lse.shape[2] # query.shape[3]
    \/ lse.shape[3] # query.shape[2]

\* lines 329-334, query normalized to [B, M, H, K]
lse_incompatible(lse, query) ==
    \/ Len(lse.shape) # 3
    \/ lse.shape[1] # query.shape[1]
    \/ lse.shape[2] # query.shape[3]
    \/ lse.shape[3] < query.shape[2]

\* lines 320-344: validation, normalization and selection, up to op.apply
_memory_efficient_attention_backward(c0, d, g, op) ==
    IF ndim_mismatch(g, d.query, c0.out)
    THEN BwdResult(E_shape, d, c0, g, None, FALSE, FALSE)
    ELSE LET n == normalize_bmhk(d)
         IN  IF lse_incompatible(c0.lse, n.query)
             THEN BwdResult(E_shape, n, c0, g, None, FALSE, TRUE)
             ELSE LET chosen == select_bw(op, n)
                  IN  BwdResult(IF chosen = None THEN E_dispatch ELSE None, n,
                                [c0 EXCEPT !.out = bmk2bmhk(c0.out)], bmk2bmhk(g),
                                chosen, op = None, TRUE)

\* mutation: only the tensor slot is read back
deserialize_bias_tensor_only(attn_bias_ctx, attn_bias_tensor) == attn_bias_tensor

deserialize_bias(attn_bias_ctx, attn_bias_tensor) ==
    IF attn_bias_tensor = None THEN attn_bias_ctx ELSE attn_bias_tensor

\* the argument positions the assertion of _fMHA.backward looks at
checked_positions(n_args) == {i \in 0..(n_args - 1) : i \notin {1, 2, 3}}

\* the operator is selected: the call goes on into op.apply, or raises
BackwardPrepared(c, b, t) ==
    /\ inp' = [inp EXCEPT ![c] = b.inp]
    /\ op_ctx' = [op_ctx EXCEPT ![c] = b.ctx]
    /\ grad' = [grad EXCEPT ![c] = b.grad]
    /\ bw_op' = [bw_op EXCEPT ![c] = b.op]
    /\ pc' = [pc EXCEPT ![c] = IF b.err = None THEN "bw_apply" ELSE "bw_failed"]
    /\ err' = [err EXCEPT ![c] = b.err]
    /\ trace' = [trace EXCEPT ![c] = [t EXCEPT !.rng_at_bw = rng,
                                               !.bw_dispatched = b.dispatched,
                                               !.bw_normalized = b.normalized]]
    /\ UNCHANGED <<flashLoaded, deviceCapability, rng, args, saved_tensors, ctx,
                   cur_rng_state, ret>>

\* _fMHA.backward(ctx, grad), up to op.apply; t is the history so far
fMHA_backward_run(c, t) ==
    /\ IF \E i \in checked_positions(ctx[c].n_args) : i \in args[c].req_grad
       THEN /\ pc' = [pc EXCEPT ![c] = "bw_failed"]
            /\ err' = [err EXCEPT ![c] = E_grad]
            /\ trace' = [trace EXCEPT ![c] = [t EXCEPT !.rng_at_bw = rng]]
            /\ UNCHANGED <<flashLoaded, deviceCapability, rng, args, inp, op_ctx,
                           saved_tensors, ctx, bw_op, grad, cur_rng_state, ret>>
       ELSE LET st == saved_tensors[c]
                d == Inputs(st.query, st.key, st.value,
                            deserialize_bias(ctx[c].attn_bias_ctx, st.attn_bias_tensor),
                            ctx[c].p, ctx[c].scale, args[c].device)
                oc == Context(st.out, st.lse, st.rng_state, None)
            IN  BackwardPrepared(c,
                    _memory_efficient_attention_backward(oc, d, grad[c], ctx[c].op_bw),
                    [t EXCEPT !.rebuilt = TRUE, !.rebuilt_inp = d, !.rebuilt_ctx = oc])

fMHA_backward(c) ==
    /\ pc[c] = "fw_done"
    /\ fMHA_backward_run(c, trace[c])

\* autograd runs the backward of a retained graph a second time
fMHA_backward_again(c) ==
    /\ pc[c] = "bw_done"
    /\ trace[c].bridged
    /\ ~trace[c].again
    /\ fMHA_backward_run(c, [trace[c] EXCEPT
                               !.again = TRUE,
                               !.first = BackwardRecord(trace[c].rebuilt_inp,
                                             trace[c].rebuilt_ctx, grad[c], bw_op[c],
                                             trace[c].rng_at_bw, ret[c].grads)])

\* lines 265-269
backward_rejects(p) == p # 0

memory_efficient_attention_backward(c) ==
    /\ pc[c] = "idle"
    /\ args[c].entry = E_backward
    /\ IF backward_rejects(args[c].p)
       THEN RaisesAtEntry(c, E_dropout)
       ELSE BackwardPrepared(c,
                _memory_efficient_attention_backward(
                    Context(args[c].output, args[c].lse, NoRng, None),
                    ArgsInputs(args[c]), args[c].grad, args[c].op[2]),
                trace[c])

\* other work of the caller between forward and backward draws random numbers
OtherWork(c) ==
    /\ pc[c] = "fw_done"
    /\ trace[c].other_work < MaxOtherWork
    /\ rng' = rng + 1
    /\ trace' = [trace EXCEPT ![c].other_work = @ + 1]
    /\ UNCHANGED <<flashLoaded, deviceCapability, args, pc, inp, op_ctx,
                   saved_tensors, ctx, bw_op, grad, cur_rng_state, ret, err>>

\* ---------------------------------------------------------------- backward operators
\* flash.py lines 236-238 read the generator only under dropout
uses_ambient_rng(op, p) == op = FlashBw /\ p # 0

\* BwOp.apply lines 188-238: allocation, then cur_rng_state = get_rng_state()
BwOp_apply_begin(c) ==
    /\ pc[c] = "bw_apply"
    /\ IF uses_ambient_rng(bw_op[c], inp[c].p)
       THEN IF op_ctx[c].rng_state = NoRng
            THEN /\ pc' = [pc EXCEPT ![c] = "bw_failed"]
                 /\ err' = [err EXCEPT ![c] = E_rng]
                 /\ trace' = [trace EXCEPT ![c].bw_executed = bw_op[c]]
                 /\ UNCHANGED cur_rng_state
            ELSE /\ pc' = [pc EXCEPT ![c] = "bw_install"]
                 /\ cur_rng_state' = [cur_rng_state EXCEPT ![c] = rng]
                 /\ trace' = [trace EXCEPT ![c].bw_executed = bw_op[c],
                                          ![c].bw_rng_access = TRUE]
                 /\ UNCHANGED err
       ELSE /\ pc' = [pc EXCEPT ![c] = "bw_kernel"]
            /\ trace' = [trace EXCEPT ![c].bw_executed = bw_op[c]]
            /\ UNCHANGED <<cur_rng_state, err>>
    /\ UNCHANGED <<flashLoaded, deviceCapability, rng, args, inp, op_ctx,
                   saved_tensors, ctx, bw_op, grad, ret>>

\* line 239: torch.cuda.set_rng_state(ctx.rng_state)
BwOp_apply_install(c) ==
    /\ pc[c] = "bw_install"
    /\ rng' = op_ctx[c].rng_state
    /\ pc' = [pc EXCEPT ![c] = "bw_kernel"]
    /\ UNCHANGED <<flashLoaded, deviceCapability, args, inp, op_ctx, saved_tensors,
                   ctx, bw_op, grad, cur_rng_state, ret, err, trace>>

\* the generator state the backward kernel draws its mask from
bw_mask_rng(op, p, r, rng_state) ==
    IF p = 0 THEN NoRng ELSE IF op = FlashBw THEN r ELSE rng_state

\* mutation: the backward kernel draws from the generator whatever p is
bw_kernel_rng_after_always(op, p, r) == r + 1

\* lines 240-260: the kernel is handed inp.p and draws a mask only under dropout
bw_kernel_rng_after(op, p, r) ==
    IF uses_ambient_rng(op, p) THEN kernel_rng_after(p, r) ELSE r

\* lines 240-260: the kernel call
BwOp_apply_kernel(c) ==
    /\ pc[c] = "bw_kernel"
    /\ \E ko \in KernelOutcomes :
        LET after == bw_kernel_rng_after(bw_op[c], inp[c].p, rng)
        IN  IF bw_op[c] = FlashBw /\ ~flashLoaded
            THEN /\ pc' = [pc EXCEPT ![c] = "bw_failed"]
                 /\ err' = [err EXCEPT ![c] = E_notloaded]
                 /\ UNCHANGED <<rng, trace>>
            ELSE IF ko # "ok"
            THEN /\ pc' = [pc EXCEPT ![c] = "bw_failed"]
                 /\ err' = [err EXCEPT ![c] = E_kernel]
                 /\ rng' = IF ko = "fail_after_rng" THEN after ELSE rng
                 /\ UNCHANGED trace
            ELSE /\ pc' = [pc EXCEPT ![c] = "bw_restore"]
                 /\ rng' = after
                 /\ trace' = [trace EXCEPT ![c].bw_kernel_rng =
                                 bw_mask_rng(bw_op[c], inp[c].p, rng,
                                             op_ctx[c].rng_state)]
                 /\ UNCHANGED err
    /\ UNCHANGED <<flashLoaded, deviceCapability, args, inp, op_ctx, saved_tensors,
                   ctx, bw_op, grad, cur_rng_state, ret>>

\* mutation: the caller's generator state is not put back
restore_rng_skipped(cur, r) == r

\* lines 261-262
restore_rng(cur, r) == IF cur # NoRng THEN cur ELSE r

NoGrad(n) == [i \in 1..n |-> NullTensor]

\* mutation: the operator selector gets no entry of its own
fMHA_backward_return_unaligned(dq, dk, dv, n_args) ==
    <<dq, dk, dv>> \o NoGrad(n_args - 3)

\* __init__.py line 111: (None, dq, dk, dv) + (None,) * (ctx.n_args - 3)
fMHA_backward_return(dq, dk, dv, n_args) ==
    <<NullTensor, dq, dk, dv>> \o NoGrad(n_args - 3)

\* lines 261-266, and the return of the entry point that called apply
BwOp_apply_return(c) ==
    /\ pc[c] = "bw_restore"
    /\ rng' = restore_rng(cur_rng_state[c], rng)
    /\ LET dq == Tensor("dq", inp[c].query.shape, FALSE)
           dk == Tensor("dk", inp[c].key.shape, FALSE)
           dv == Tensor("dv", inp[c].value.shape, FALSE)
       IN  ret' = [ret EXCEPT ![c].grads =
                      IF trace[c].bridged
                      THEN fMHA_backward_return(dq, dk, dv, ctx[c].n_args)
                      ELSE <<dq, dk, dv>>]
    /\ pc' = [pc EXCEPT ![c] = "bw_done"]
    /\ UNCHANGED <<flashLoaded, deviceCapability, args, inp, op_ctx, saved_tensors,
                   ctx, bw_op, grad, cur_rng_state, err, trace>>

Next ==
    \E c \in Calls :
        \/ memory_efficient_attention(c)
        \/ memory_efficient_attention_forward(c)
        \/ memory_efficient_attention_forward_requires_grad(c)
        \/ memory_efficient_attention_backward(c)
        \/ OtherWork(c)
        \/ fMHA_backward(c)
        \/ BwOp_apply_begin(c)
        \/ BwOp_apply_install(c)
        \/ BwOp_apply_kernel(c)
        \/ BwOp_apply_return(c)

Spec == Init /\ [][Next]_vars

\* the same calls, with the graph retained for a second backward
NextRetain ==
    \/ Next
    \/ \E c \in Calls : fMHA_backward_again(c)

SpecRetain == Init /\ [][NextRetain]_vars

\* two calls that share the generator: a second thread runs a dropout call
\* on the flash backend next to the first one
ConcurrentArgs ==
    {a \in ArgChoices : /\ a.query.shape = Shape4(BW_SMALL_K)
                        /\ a.device = "cuda"
                        /\ a.scale = None
                        /\ a.attn_bias = None}
SecondCallArgs ==
    MkArgs(E_compute, <<None, None>>, Shape4(BW_SMALL_K), None, 3, None, "cuda",
           {1, 2, 3}, NullTensor, NullTensor, NullTensor)

InitConc ==
    /\ flashLoaded = TRUE
    /\ deviceCapability = SM80
    /\ \E a \in ConcurrentArgs : InitCalls(a, SecondCallArgs)

SpecConc == InitConc /\ [][Next]_vars

\* ---------------------------------------------------------------- properties
Bridged(c) == trace[c].bridged
Explicit(c) == args[c].op[2]
Pinned(c) == trace[c].fw_ctx.op_bw

\* C1: when the forward Context carries a pinned op_bw, an explicit different
\* backward operator makes the forward phase fail with the policy conflict and
\* return nothing; otherwise the persisted backward operator is the pinned one
\* and the backward phase runs exactly it, without consulting the dispatcher.
C1_PinnedBackwardOperator ==
    \A c \in Calls :
        (Bridged(c) /\ Pinned(c) # None) =>
            IF Explicit(c) # None /\ Explicit(c) # Pinned(c)
            THEN /\ pc[c] = "fw_failed"
                 /\ err[c] = E_op_bw
                 /\ ret[c] = NoRet
            ELSE /\ pc[c] # "fw_failed"
                 /\ ctx[c].set
                 /\ ctx[c].op_bw = Pinned(c)
                 /\ ~trace[c].bw_dispatched
                 /\ bw_op[c] \in {None, Pinned(c)}
                 /\ trace[c].bw_executed \in {None, Pinned(c)}

C1_Witness ==
    \E c \in Calls :
        /\ Bridged(c)
        /\ Pinned(c) = FlashBw
        /\ Explicit(c) = None
        /\ pc[c] = "bw_done"
        /\ trace[c].bw_executed = FlashBw

C1_ConflictWitness ==
    \E c \in Calls :
        /\ Bridged(c)
        /\ Pinned(c) = FlashBw
        /\ Explicit(c) = CutlassBw
        /\ pc[c] = "fw_failed"

\* C2: a gradient requested for any forward argument other than query, key and
\* value makes the backward phase fail before Inputs/Context are rebuilt and
\* before any backward operator is selected or run; no gradient tuple is returned.
C2_OnlyQKVGradients ==
    \A c \in Calls :
        (/\ Bridged(c)
         /\ (args[c].req_grad \ {1, 2, 3}) # {}
         /\ pc[c] \notin {"idle", "fw_done", "fw_failed"}) =>
            /\ pc[c] = "bw_failed"
            /\ err[c] = E_grad
            /\ ~trace[c].rebuilt
            /\ ~trace[c].bw_dispatched
            /\ trace[c].bw_executed = None
            /\ ret[c].grads = <<>>

\* C3: right after a successful backward of a bridged call the ambient generator
\* is in the state it had when that backward was called (the state right after
\* forward when no other work ran in between), never the state from before a
\* dropout forward; with p = 0 the backward does not touch the generator.
C3_BackwardRestoresAmbientRng ==
    \A c \in Calls :
        (Bridged(c) /\ pc[c] = "bw_done") =>
            /\ rng = trace[c].rng_at_bw
            /\ (trace[c].other_work = 0 => rng = trace[c].rng_after_fw)
            /\ (ctx[c].p # 0 => rng # trace[c].rng_at_fw)
            /\ (ctx[c].p = 0 => ~trace[c].bw_rng_access /\ cur_rng_state[c] = NoRng)

C3_Witness ==
    \E c \in Calls :
        /\ Bridged(c)
        /\ pc[c] = "bw_done"
        /\ ctx[c].p # 0
        /\ bw_op[c] = FlashBw
        /\ trace[c].other_work > 0
        /\ trace[c].rng_at_bw # trace[c].rng_after_fw

\* C4: for a dropout call run by the flash backend, the generator state under
\* which the backward kernel runs is the state under which the forward kernel
\* started, however far the ambient generator advanced in between.
C4_BackwardReplaysForwardRng ==
    \A c \in Calls :
        (/\ Bridged(c)
         /\ trace[c].fw_op = FlashFw
         /\ trace[c].fw_inp.p # 0
         /\ pc[c] \notin {"idle", "fw_failed"}) =>
            /\ saved_tensors[c].rng_state = trace[c].fw_kernel_rng
            /\ (pc[c] \in {"bw_restore", "bw_done"} =>
                    trace[c].bw_kernel_rng = trace[c].fw_kernel_rng)

C4_Witness ==
    \E c \in Calls :
        /\ Bridged(c)
        /\ trace[c].fw_op = FlashFw
        /\ trace[c].fw_inp.p # 0
        /\ pc[c] = "bw_done"
        /\ trace[c].other_work = MaxOtherWork
        /\ trace[c].bw_kernel_rng = trace[c].fw_kernel_rng

\* C5: on every exit of the backward, normal or failing, the ambient generator
\* is in the state it had when the backward was called.
C5_RngRestoredOnEveryExit ==
    \A c \in Calls :
        (Bridged(c) /\ pc[c] \in {"bw_done", "bw_failed"}) =>
            rng = trace[c].rng_at_bw

\* C6: the save / install / kernel / restore sequences of two concurrent dropout
\* backward calls never interleave, and each kernel runs under its own checkpoint.
InCritical(c) ==
    /\ pc[c] \in {"bw_install", "bw_kernel", "bw_restore"}
    /\ cur_rng_state[c] # NoRng
C6_CriticalSection ==
    /\ \A c1, c2 \in Calls : c1 # c2 => ~(InCritical(c1) /\ InCritical(c2))
    /\ \A c \in Calls :
        (pc[c] \in {"bw_restore", "bw_done"} /\ cur_rng_state[c] # NoRng) =>
            trace[c].bw_kernel_rng = op_ctx[c].rng_state

\* C7: memory_efficient_attention_forward rejects every call with p != 0 without
\* selecting or running a backend.
C7_ForwardRejectsDropout ==
    \A c \in Calls :
        (args[c].entry = E_forward /\ args[c].p # 0 /\ pc[c] # "idle") =>
            /\ pc[c] = "fw_failed"
            /\ err[c] = E_dropout
            /\ ~trace[c].fw_dispatched
            /\ trace[c].fw_op = None

\* C8: memory_efficient_attention_forward_requires_grad and
\* memory_efficient_attention_backward reject every call with p != 0 before any
\* normalization, selection or execution: nothing is returned, no Inputs is
\* touched and the generator stays where it started.
C8_NonAutogradRejectsDropout ==
    \A c \in Calls :
        (/\ args[c].entry \in {E_forward_rg, E_backward}
         /\ args[c].p # 0
         /\ pc[c] # "idle") =>
            /\ pc[c] \in {"fw_failed", "bw_failed"}
            /\ err[c] = E_dropout
            /\ ~trace[c].fw_normalized /\ ~trace[c].bw_normalized
            /\ ~trace[c].fw_dispatched /\ ~trace[c].bw_dispatched
            /\ trace[c].fw_op = None /\ trace[c].bw_executed = None
            /\ bw_op[c] = None
            /\ ret[c] = NoRet
            /\ inp[c] = NullInputs
            /\ rng = 0

C8_Witness ==
    \E c \in Calls :
        /\ args[c].entry = E_forward_rg
        /\ args[c].p # 0
        /\ pc[c] = "fw_failed"
        /\ err[c] = E_dropout

\* C9 as stated: after the forward phase exactly one of the two persisted bias
\* slots is populated, for every attn_bias variant.
TensorSlot(c) == saved_tensors[c].attn_bias_tensor # None
PayloadSlot(c) == ctx[c].attn_bias_ctx # None
C9_ExactlyOneBiasSlot ==
    \A c \in Calls :
        (Bridged(c) /\ ctx[c].set) => (TensorSlot(c) # PayloadSlot(c))

\* C9 amended: never both slots; the tensor slot exactly for a dense tensor, the
\* payload slot exactly for a structured mask, and neither for no bias.
C9_BiasSlotsByVariant ==
    \A c \in Calls :
        (Bridged(c) /\ ctx[c].set) =>
            /\ ~(TensorSlot(c) /\ PayloadSlot(c))
            /\ (TensorSlot(c) <=> trace[c].fw_inp.attn_bias = BiasTensor)
            /\ (PayloadSlot(c) <=> trace[c].fw_inp.attn_bias = LowerTriangularMask)
            /\ (trace[c].fw_inp.attn_bias = None => ~TensorSlot(c) /\ ~PayloadSlot(c))

C9_Witness ==
    \E c \in Calls :
        /\ Bridged(c)
        /\ ctx[c].set
        /\ trace[c].fw_op = FlashFw
        /\ trace[c].fw_inp.attn_bias = LowerTriangularMask
        /\ PayloadSlot(c)
        /\ ~TensorSlot(c)

\* C10: the Inputs and Context rebuilt in the backward phase are the ones the
\* forward operator received and produced (query, key, value detached).
C10_RebuiltAsPersisted ==
    \A c \in Calls :
        trace[c].rebuilt =>
            /\ trace[c].rebuilt_inp =
                  [trace[c].fw_inp EXCEPT !.query = detach(@), !.key = detach(@),
                                          !.value = detach(@)]
            /\ trace[c].rebuilt_ctx.out = trace[c].fw_ctx.out
            /\ trace[c].rebuilt_ctx.lse = trace[c].fw_ctx.lse
            /\ trace[c].rebuilt_ctx.rng_state = trace[c].fw_ctx.rng_state

C10_Witness ==
    \E c \in Calls :
        /\ trace[c].rebuilt
        /\ trace[c].fw_op = FlashFw
        /\ trace[c].fw_inp.attn_bias = LowerTriangularMask
        /\ trace[c].rebuilt_inp.attn_bias = LowerTriangularMask
        /\ Len(args[c].query.shape) = 3
        /\ trace[c].rebuilt_ctx.rng_state # NoRng

\* the positional arguments of _fMHA.forward after ctx: op, then *args
ForwardPositions == <<"op", "query", "key", "value", "attn_bias", "p", "scale">>

\* C11: a successful bridge backward returns one entry per positional argument
\* of the forward (the operator selector, then the n_args recorded at forward):
\* no gradient for the selector, dq, dk, dv at query, key, value, and no
\* gradient at every other position.
C11_GradientTuple ==
    \A c \in Calls :
        (Bridged(c) /\ pc[c] = "bw_done") =>
            LET g == ret[c].grads
            IN  /\ Len(g) = 1 + ctx[c].n_args
                /\ Len(g) = Len(ForwardPositions)
                /\ \A i \in 1..Len(g) :
                      CASE ForwardPositions[i] = "query" ->
                               g[i] = Tensor("dq", inp[c].query.shape, FALSE)
                        [] ForwardPositions[i] = "key" ->
                               g[i] = Tensor("dk", inp[c].key.shape, FALSE)
                        [] ForwardPositions[i] = "value" ->
                               g[i] = Tensor("dv", inp[c].value.shape, FALSE)
                        [] OTHER -> g[i] = NullTensor

C11_Witness ==
    \E c \in Calls :
        /\ Bridged(c)
        /\ pc[c] = "bw_done"
        /\ Len(ret[c].grads) = 7
        /\ ret[c].grads[2].data = "dq"
        /\ ret[c].grads[7] = NullTensor
        /\ args[c].scale # None

\* the shapes the backward validation turns down, on the caller's tensors
ShapeErrorExpected(q, g, o, l) ==
    \/ Len(g) # Len(q)
    \/ Len(g) # Len(o)
    \/ Len(l) # 3
    \/ l[1] # q[1]
    \/ l[2] # HeadsOf(q)
    \/ l[3] < q[2]

BackwardValidated(c) ==
    \/ args[c].entry = E_backward /\ args[c].p = 0 /\ pc[c] # "idle"
    \/ trace[c].rebuilt

\* C12: the backward validation raises the shape error exactly when grad's
\* rank differs from query's or out's, or lse is not rank 3, or lse's first
\* dimension is not the batch size, or its second is not the number of heads
\* (1 for a rank-3 query), or its last is smaller than the query length; a
\* longer lse passes; on the error no backward operator is selected or run.
C12_BackwardShapeValidation ==
    \A c \in Calls :
        BackwardValidated(c) =>
            LET q == IF trace[c].rebuilt THEN trace[c].rebuilt_inp.query.shape
                     ELSE args[c].query.shape
                g == IF trace[c].rebuilt THEN grad[c].shape ELSE args[c].grad.shape
                o == IF trace[c].rebuilt THEN trace[c].rebuilt_ctx.out.shape
                     ELSE args[c].output.shape
                l == IF trace[c].rebuilt THEN trace[c].rebuilt_ctx.lse.shape
                     ELSE args[c].lse.shape
            IN  /\ (err[c] = E_shape) <=> ShapeErrorExpected(q, g, o, l)
                /\ (err[c] = E_shape) =>
                      /\ pc[c] = "bw_failed"
                      /\ bw_op[c] = None
                      /\ ~trace[c].bw_dispatched
                      /\ trace[c].bw_executed = None
                      /\ ret[c].grads = <<>>

\* a rank-3 query with an lse of two heads is turned down
C12_Witness ==
    \E c \in Calls :
        /\ args[c].entry = E_backward
        /\ err[c] = E_shape
        /\ Len(args[c].query.shape) = 3
        /\ Len(args[c].grad.shape) = 3
        /\ Len(args[c].output.shape) = 3
        /\ args[c].lse.shape = <<BatchSize, 2, SeqLen>>

\* an lse padded beyond the query length runs to the gradients
C12_PaddedLseWitness ==
    \E c \in Calls :
        /\ args[c].entry = E_backward
        /\ pc[c] = "bw_done"
        /\ args[c].lse.shape[3] > args[c].query.shape[2]

\* C13: the manual backward returns dq, dk, dv with the shapes of the query,
\* key, value the caller supplied, rank-3 for rank-3.
C13_ManualBackwardShapes ==
    \A c \in Calls :
        (args[c].entry = E_backward /\ pc[c] = "bw_done") =>
            /\ Len(ret[c].grads) = 3
            /\ ret[c].grads[1].shape = args[c].query.shape
            /\ ret[c].grads[2].shape = args[c].key.shape
            /\ ret[c].grads[3].shape = args[c].value.shape

ForwardSucceeded(c) ==
    \/ pc[c] = "returned"
    \/ Bridged(c) /\ pc[c] \notin {"idle", "fw_failed"}

\* [batch, seq_q, dim_v] for a rank-3 query, [batch, seq_q, heads, dim_v] for rank 4
OutputShapeOf(query, value) ==
    IF Len(query.shape) = 3
    THEN <<query.shape[1], query.shape[2], value.shape[3]>>
    ELSE <<query.shape[1], query.shape[2], query.shape[3], value.shape[4]>>

\* C14: compute (fast path and bridge path), compute_forward and
\* compute_forward_with_context return an output of the rank of the supplied
\* query, [B, Mq, Kv] or [B, Mq, H, Kv], also on the bridge path where the
\* Inputs are normalized twice.
C14_OutputRank ==
    \A c \in Calls :
        ForwardSucceeded(c) =>
            /\ ret[c].out.data = "out"
            /\ ret[c].out.shape = OutputShapeOf(args[c].query, args[c].value)
            /\ Len(ret[c].out.shape) = Len(args[c].query.shape)

C14_Witness ==
    \E c \in Calls :
        /\ Bridged(c)
        /\ pc[c] = "fw_done"
        /\ Len(args[c].query.shape) = 3
        /\ Len(trace[c].fw_inp.query.shape) = 4
        /\ ret[c].out.shape = Shape3(BW_SMALL_K)

NothingPersisted(c) == ~saved_tensors[c].set /\ ~ctx[c].set

\* C15: when the forward phase of the bridge fails, for whatever reason, no
\* saved tensors and no side state have been persisted; when a backward call
\* fails, no gradients are returned.
C15_FailedCallLeavesNothing ==
    \A c \in Calls :
        /\ (Bridged(c) /\ pc[c] = "fw_failed") => NothingPersisted(c)
        /\ (pc[c] = "bw_failed") => ret[c].grads = <<>>

\* the same, leaving the policy conflict of the backward operator aside
C15_ExceptPolicyConflict ==
    \A c \in Calls :
        /\ (Bridged(c) /\ pc[c] = "fw_failed" /\ err[c] # E_op_bw) => NothingPersisted(c)
        /\ (pc[c] = "bw_failed") => ret[c].grads = <<>>

\* the Inputs a call hands to supports: as supplied, and normalized
InputsOfCall(c) == {ArgsInputs(args[c]), normalize_bmhk(ArgsInputs(args[c]))}

\* C16: with the flash kernel not loaded, FwOp.supports and BwOp.supports
\* return false for every Inputs, raise nothing, do not query the device and
\* evaluate no other check; and supports never changes the Inputs it is given.
C16_SupportsWhenNotLoaded ==
    \A c \in Calls :
        (pc[c] # "absent") =>
            /\ \A d \in InputsOfCall(c) : \A r \in {FwOp_supports_run(d), BwOp_supports_run(d)} :
                  /\ r.inp = d
                  /\ ~flashLoaded =>
                        /\ r.result = FALSE
                        /\ ~r.raised
                        /\ r.steps = <<S_operator>>
            /\ (~flashLoaded /\ trace[c].fw_dispatched) => trace[c].fw_op # FlashFw
            /\ (~flashLoaded /\ trace[c].bw_dispatched) => bw_op[c] # FlashBw

\* dispatch passed over the unloaded flash backend, on Inputs it would take
C16_Witness ==
    \E c \in Calls :
        /\ ~flashLoaded
        /\ trace[c].fw_dispatched
        /\ trace[c].fw_op = CutlassFw
        /\ trace[c].fw_inp.device = "cuda"
        /\ trace[c].fw_inp.attn_bias = None
        /\ Last(trace[c].fw_inp.query.shape) = BW_SMALL_K
        /\ CapGE(deviceCapability, MIN_CAPABILITY)

IsFirstAccepting(op, list, d) ==
    \E i \in 1..Len(list) :
        /\ list[i] = op
        /\ supports(op, d)
        /\ \A j \in 1..(i - 1) : ~supports(list[j], d)
NoneAccepts(list, d) == \A i \in 1..Len(list) : ~supports(list[i], d)

\* the Inputs the backward dispatch is asked about
BackwardInputs(c) ==
    IF trace[c].rebuilt THEN normalize_bmhk(trace[c].rebuilt_inp)
    ELSE normalize_bmhk(ArgsInputs(args[c]))

C17_NoCandidateWitness ==
    \E c \in Calls :
        /\ trace[c].fw_dispatched
        /\ trace[c].fw_op = None
        /\ err[c] = E_dispatch

\* C18: with p = 0, a second backward over the same persisted state and the
\* same incoming gradient reads what the first one read (rebuilt Inputs and
\* Context, gradient, operator, ambient generator: the first invocation
\* changed none of them) and returns the same dq, dk, dv.
C18_BackwardTwiceSame ==
    \A c \in Calls :
        (trace[c].again /\ ctx[c].p = 0) =>
            /\ trace[c].rebuilt_inp = trace[c].first.rebuilt_inp
            /\ trace[c].rebuilt_ctx = trace[c].first.rebuilt_ctx
            /\ trace[c].rng_at_bw = trace[c].first.rng_at_bw
            /\ (pc[c] # "bw_failed") =>
                  /\ grad[c] = trace[c].first.grad
                  /\ bw_op[c] = trace[c].first.bw_op
            /\ (pc[c] = "bw_done") =>
                  /\ ret[c].grads = trace[c].first.grads
                  /\ rng = trace[c].first.rng_at_bw

C18_Witness ==
    \E c \in Calls :
        /\ trace[c].again
        /\ ctx[c].p = 0
        /\ pc[c] = "bw_done"
        /\ bw_op[c] = FlashBw
        /\ trace[c].other_work > 0
        /\ ret[c].grads[2].data = "dq"

NoneOfQKVRequiresGrad(c) == args[c].req_grad \cap {1, 2, 3} = {}

\* C19: memory_efficient_attention takes the non-differentiable forward path
\* exactly when none of query, key, value requires a gradient; there the
\* forward operator runs without gradient-support mode, only the forward half
\* of an explicit pair is used and nothing is persisted; otherwise the call
\* goes through the bridge's forward phase, in gradient-support mode.
C19_FastPath ==
    \A c \in Calls :
        (args[c].entry = E_compute /\ pc[c] # "idle") =>
            /\ Bridged(c) <=> ~NoneOfQKVRequiresGrad(c)
            /\ NoneOfQKVRequiresGrad(c) =>
                  /\ pc[c] \in {"returned", "fw_failed"}
                  /\ ~trace[c].fw_needs_gradient
                  /\ NothingPersisted(c)
                  /\ bw_op[c] = None
                  /\ err[c] # E_op_bw
                  /\ (args[c].op[1] # None) =>
                        (trace[c].fw_op = args[c].op[1] /\ ~trace[c].fw_dispatched)
            /\ ~NoneOfQKVRequiresGrad(c) =>
                  (trace[c].fw_op # None => trace[c].fw_needs_gradient)

\* a pair whose backward half would conflict in the bridge runs on the fast path
C19_Witness ==
    \E c \in Calls :
        /\ args[c].entry = E_compute
        /\ NoneOfQKVRequiresGrad(c)
        /\ args[c].req_grad = {4}
        /\ pc[c] = "returned"
        /\ trace[c].fw_op = CutlassFw
        /\ args[c].op = <<CutlassFw, FlashBw>>
        /\ args[c].p # 0

C19_BridgeWitness ==
    \E c \in Calls :
        /\ args[c].entry = E_compute
        /\ args[c].req_grad = {2, 5}
        /\ pc[c] = "fw_done"
        /\ trace[c].fw_needs_gradient

\* C20: after a successful forward phase of the bridge, the persisted forward
\* operator is the operator that ran the forward, also when dispatch chose it,
\* and the persisted p, scale and argument count are those of the call.
C20_PersistedForwardOperator ==
    \A c \in Calls :
        (Bridged(c) /\ ctx[c].set) =>
            /\ ctx[c].op_fw = trace[c].fw_op
            /\ ctx[c].p = args[c].p
            /\ ctx[c].scale = args[c].scale
            /\ ctx[c].n_args = Len(ForwardPositions) - 1

\* what does hold: the persisted forward operator is the caller's explicit
\* one, None when the caller gave none
C20_PersistedAsGiven ==
    \A c \in Calls :
        (Bridged(c) /\ ctx[c].set) =>
            /\ ctx[c].op_fw = args[c].op[1]
            /\ (~trace[c].fw_dispatched => ctx[c].op_fw = trace[c].fw_op)
            /\ ctx[c].p = args[c].p
            /\ ctx[c].scale = args[c].scale
            /\ ctx[c].n_args = Len(ForwardPositions) - 1

\* C21: BwOp.supports(d) holds exactly when FwOp.supports(d) holds and the
\* larger of the key and query embedding dims is at most 64 or the device
\* capability is exactly (8, 0); FwOp.supports(d) holds only if the kernel is
\* loaded, the static check passes, the query embedding dim is a multiple of 8
\* and the device capability is at least (7, 5).
C21_BackwardImpliesForward ==
    \A c \in Calls :
        (pc[c] # "absent") =>
            /\ \A d \in InputsOfCall(c) :
                  /\ BwOp_supports(d) <=>
                        /\ FwOp_supports(d)
                        /\ \/ Max2(Last(d.key.shape), Last(d.query.shape)) <= 64
                           \/ deviceCapability = <<8, 0>>
                  /\ FwOp_supports(d) =>
                        /\ flashLoaded
                        /\ AttentionOpBase_supports(FlashFw, d)
                        /\ Last(d.query.shape) % 8 = 0
                        /\ CapGE(deviceCapability, <<7, 5>>)
            /\ (trace[c].bw_dispatched /\ bw_op[c] = FlashBw) =>
                  /\ FwOp_supports(inp[c])
                  /\ (Last(inp[c].query.shape) <= 64 \/ deviceCapability = <<8, 0>>)

\* dispatch ran the forward on flash and, for K = 128 below sm80, passed over
\* flash for the backward
C21_Witness ==
    \E c \in Calls :
        /\ trace[c].fw_dispatched
        /\ trace[c].fw_op = FlashFw
        /\ trace[c].bw_dispatched
        /\ bw_op[c] = CutlassBw
        /\ Last(inp[c].query.shape) = 128
        /\ deviceCapability = <<7, 5>>
        /\ FwOp_supports(inp[c])
        /\ ~BwOp_supports(inp[c])

FlashForwardReturned(c) ==
    trace[c].fw_op = FlashFw /\ trace[c].fw_ctx.out.data = "out"

\* C22: the Context the flash forward returns carries the pinned op_bw (flash
\* BwOp) and a non-null rng_state when p != 0 and neither when p = 0; so when
\* the forward ran on flash and flash BwOp.apply is reached with p != 0, the
\* Context it gets has a non-null rng_state and its assertion does not fail.
C22_PinnedWithRngState ==
    \A c \in Calls :
        /\ FlashForwardReturned(c) =>
              IF trace[c].fw_inp.p # 0
              THEN /\ trace[c].fw_ctx.op_bw = FlashBw
                   /\ trace[c].fw_ctx.rng_state # NoRng
              ELSE /\ trace[c].fw_ctx.op_bw = None
                   /\ trace[c].fw_ctx.rng_state = NoRng
        /\ (trace[c].fw_op = FlashFw /\ trace[c].bw_executed = FlashBw
                /\ inp[c].p # 0) =>
              /\ op_ctx[c].rng_state # NoRng
              /\ op_ctx[c].rng_state = trace[c].fw_ctx.rng_state
              /\ err[c] # E_rng

C22_Witness ==
    \E c \in Calls :
        /\ FlashForwardReturned(c)
        /\ trace[c].fw_inp.p # 0
        /\ trace[c].bw_executed = FlashBw
        /\ op_ctx[c].rng_state # NoRng
        /\ trace[c].other_work > 0
        /\ pc[c] = "bw_done"

\* without dropout nothing is pinned and the backward may run elsewhere
C22_UnpinnedWitness ==
    \E c \in Calls :
        /\ FlashForwardReturned(c)
        /\ trace[c].fw_inp.p = 0
        /\ trace[c].fw_ctx.op_bw = None
        /\ trace[c].bw_executed = CutlassBw

====
